---- MODULE Spec2Model ----
(***************************************************************************)
(* xtr::enumerate (include/extra.h): the index + element adapter for       *)
(* ranged for loops.  The model follows one caller through                 *)
(*                                                                         *)
(*     for (auto [i, x] : xtr::enumerate<...>(...)) { ... }                *)
(*                                                                         *)
(* i.e. the call of enumerate, begin/end on the enumerator, and then       *)
(* operator!=, operator* and operator++ on the indexed_iterator.           *)
(* Template arguments are inputs: the iterable type, the value category    *)
(* of the argument, the optional explicit index type.                      *)
(***************************************************************************)
EXTENDS Integers, Sequences, FiniteSets, TLC

\* ------------------------------------------------------------------ bounds

\* longest finite sequence handed to enumerate
MaxLen == 3
\* longest period of an endless (cyclic) sequence
MaxPeriod == 2
\* cap on the operator++ calls of one traversal (only an endless one gets there)
MaxSteps == 257
\* cap on the traversals (calls of begin) of one adapter
MaxPasses == 2
\* cap on the operator* calls between two advancements
MaxDerefs == 2
\* cap on the caller's writes through a yielded element
MaxWrites == 1

\* element values
Elems == {1, 2}

\* ------------------------------------------------- the template arguments

\* Iterable: std::vector<int>; a user container whose size_type is
\* uint8_t and that has no initializer_list constructor; an endless cyclic
\* sequence that declares no size_type (its end sentinel is never reached).
IterableTypes == {"vector", "small_vector", "cycle"}

\* Index as written by the caller: omitted, a fixed-width unsigned type, or
\* (wrongly) a reference type.
ExplicitIndex == {"omitted", "uint8_t", "uint16_t", "size_t&"}

\* Iterable &&iterable binds an lvalue or an rvalue; Parameters &&... is the
\* variadic entry point.
Categories == {"lvalue", "rvalue", "variadic"}

\* typename remove_reference_t<Iterable>::size_type, "absent" when the type
\* declares none
size_type(T) ==
    CASE T = "vector" -> "size_t"
      [] T = "small_vector" -> "uint8_t"
      [] OTHER -> "absent"

has_initializer_list_ctor(T) == T = "vector"

endless(T) == T = "cycle"

is_reference(I) == I = "size_t&"

\* width of an index type
Bits(I) ==
    CASE I = "uint8_t" -> 8
      [] I = "uint16_t" -> 16
      [] OTHER -> 64

\* n as a value of the unsigned type I.  Every n of the model is below 2^31,
\* so for a 64 bit type n mod 2^64 is n itself.
Reduce(n, I) == IF Bits(I) >= 31 THEN n ELSE n % (2 ^ Bits(I))

\* ------------------------------------------------------------ get_index_t

get_index_t_swapped(T) == IF size_type(T) # "absent" THEN "size_t" ELSE "uint8_t"

\* primary template: size_t; the specialisation (void_t on size_type): the
\* declared size_type
get_index_t(T) == IF size_type(T) # "absent" THEN size_type(T) ELSE "size_t"

\* template <typename Iterable, typename Index = detail::get_index_t<Iterable>>
IndexArgument(T, explicit) == IF explicit = "omitted" THEN get_index_t(T) ELSE explicit

\* ----------------------------------------------------------- get_stored_t

\* enumerate instantiates enumerator<add_rvalue_reference_t<Iterable>, Index>:
\* Iterable is T& for an lvalue argument (T& && collapses to T&), T otherwise
iterable_type(category) == IF category = "lvalue" THEN "lvalue_ref" ELSE "rvalue_ref"

get_stored_t_always_ref(R) == "lvalue_ref"

\* conditional_t<is_rvalue_reference_v<T>, remove_reference_t<T>, T>
get_stored_t(R) == IF R = "rvalue_ref" THEN "value" ELSE R

\* ---------------------------------------------------------------- storage

Stores == {"caller", "temp", "owned"}

NoSlot == [store |-> "none", pos |-> 0]
NoPair == [index |-> 0, ref |-> NoSlot]
NoIter == [m_iterator |-> NoSlot, m_index |-> 0]
NoArgs == <<>>
Dead == [live |-> FALSE, data |-> <<>>]

SeqsUpTo(n) == UNION {[1..k -> Elems] : k \in 0..n}

\* the sequences a caller can hold in an object of type T
Contents(T) ==
    IF endless(T) THEN {s \in SeqsUpTo(MaxPeriod) : Len(s) >= 1}
    ELSE SeqsUpTo(MaxLen)

\* constructor arguments (count, value) for the variadic entry point
Args(T) ==
    {<<n, v>> : n \in (IF endless(T) THEN 1..MaxPeriod ELSE 0..MaxLen), v \in Elems}

\* T(count, value): the fill constructor
Construct(T, a) == [k \in 1..a[1] |-> a[2]]

\* m_iterable{std::forward<Parameters>(parameters)...}: list-initialization
\* takes an initializer_list constructor when the type has one and the
\* arguments convert to the element type, and only otherwise the constructor
\* the arguments name
ListInit(T, a) == IF has_initializer_list_ctor(T) THEN a ELSE Construct(T, a)

\* ------------------------------------------------------------------ state

VARIABLES
    Iterable,       \* template argument: the iterable type
    explicitIndex,  \* template argument: Index as written, or "omitted"
    category,       \* how the sequence is handed over
    args,           \* the variadic entry point's arguments
    mem,            \* the sequence objects: the caller's, the temporary, the adapter's own
    m_iterable,     \* enumerator_base::m_iterable: how it is stored and which object it is
    index_type,     \* enumerator::index_type
    it,             \* the indexed_iterator __begin: m_iterator and m_index
    endIt,          \* __end: the underlying end sentinel
    yielded,        \* the last result of operator* at this position
    derefs,         \* operator* calls since the last advancement
    steps,          \* operator++ calls since begin()
    pass,           \* calls of begin() on this adapter
    writes,         \* writes of the caller through a yielded element
    broke,          \* the traversal was left by break
    pc              \* where the caller is

vars == <<Iterable, explicitIndex, category, args, mem, m_iterable, index_type,
          it, endIt, yielded, derefs, steps, pass, writes, broke, pc>>

types == <<Iterable, explicitIndex, category, args>>

Data(s) == mem[s].data

\* the element a slot refers to
At(slot) == Data(slot.store)[slot.pos + 1]

Init ==
    /\ Iterable \in IterableTypes
    /\ explicitIndex \in ExplicitIndex
    /\ category \in Categories
    /\ \/ /\ category = "lvalue"
          /\ args = NoArgs
          /\ \E s \in Contents(Iterable) :
                mem = [x \in Stores |-> IF x = "caller" THEN [live |-> TRUE, data |-> s] ELSE Dead]
       \/ /\ category = "rvalue"
          /\ args = NoArgs
          /\ \E s \in Contents(Iterable) :
                mem = [x \in Stores |-> IF x = "temp" THEN [live |-> TRUE, data |-> s] ELSE Dead]
       \/ /\ category = "variadic"
          /\ args \in Args(Iterable)
          /\ mem = [x \in Stores |-> Dead]
    /\ m_iterable = [stored |-> "none", store |-> "none"]
    /\ index_type = "none"
    /\ it = NoIter
    /\ endIt = NoSlot
    /\ yielded = NoPair
    /\ derefs = 0
    /\ steps = 0
    /\ pass = 0
    /\ writes = 0
    /\ broke = FALSE
    /\ pc = "call"

\* --------------------------------------- the underlying traversal position

\* std::begin(c), std::end(c) and ++ on the iterators of the wrapped sequence:
\* a position is an object and an offset in it; the end of a cyclic sequence
\* is a sentinel no position ever equals, because ++ wraps before it
std_begin(store) == [store |-> store, pos |-> 0]

std_end(store, n) == [store |-> store, pos |-> n]

iterator_inc(p, T, n) ==
    IF endless(T) THEN [p EXCEPT !.pos = (@ + 1) % n] ELSE [p EXCEPT !.pos = @ + 1]

\* ------------------------------------------------------- indexed_iterator

indexed_iterator_from_one(iterator) == [m_iterator |-> iterator, m_index |-> 1]

\* indexed_iterator(iterator_type iterator): m_iterator{forward(iterator)}, m_index{}
indexed_iterator(iterator) == [m_iterator |-> iterator, m_index |-> 0]

op_ne_by_index(self, end) == self.m_index # end.pos

\* indexed_iterator_base::operator!=: return m_iterator != end
op_ne(self, end) == self.m_iterator # end

index_inc_stuck(i, I) == i

\* ++m_index on an unsigned index_type
index_inc(i, I) == Reduce(i + 1, I)

op_inc_index_only(self, T, n, I) ==
    [m_iterator |-> self.m_iterator, m_index |-> index_inc(self.m_index, I)]

\* indexed_iterator::operator++: ++m_iterator; ++m_index
op_inc(self, T, n, I) ==
    [m_iterator |-> iterator_inc(self.m_iterator, T, n),
     m_index |-> index_inc(self.m_index, I)]

op_deref_post_increment(self) ==
    [self |-> [self EXCEPT !.m_index = @ + 1],
     ret |-> [index |-> self.m_index, ref |-> self.m_iterator]]

op_deref_next_element(self) ==
    [self |-> self,
     ret |-> [index |-> self.m_index,
              ref |-> [self.m_iterator EXCEPT !.pos = IF @ > 0 THEN @ - 1 ELSE @]]]

\* indexed_iterator::operator* (not const): return {m_index, *m_iterator}, a
\* tuple<const index_type, reference>: the index by value, the element as the
\* reference the underlying position yields.  self is the object afterwards.
op_deref(self) ==
    [self |-> self, ret |-> [index |-> self.m_index, ref |-> self.m_iterator]]

\* ------------------------------------------------------------- enumerator

detail_begin_at_end(object, n) == indexed_iterator(std_end(object.store, n))

\* detail::begin(enumerator &object): return {begin(object.m_iterable)}
detail_begin(object, n) == indexed_iterator(std_begin(object.store))

\* detail::end(enumerator_base &object): return end(object.m_iterable)
detail_end(object, n) == std_end(object.store, n)

\* enumerator_base(iterable_type iterable): m_iterable{forward(iterable)}.
\* A stored value is move-constructed from an rvalue (the source is left
\* empty) and copy-constructed from an lvalue; a stored reference is bound.
enumerator_base(R, src, m) ==
    IF get_stored_t(R) = "value"
    THEN [m_iterable |-> [stored |-> "value", store |-> "owned"],
          mem |-> [m EXCEPT !["owned"] = [live |-> TRUE, data |-> m[src].data],
                            ![src].data = IF R = "rvalue_ref" THEN <<>> ELSE @]]
    ELSE [m_iterable |-> [stored |-> get_stored_t(R), store |-> src],
          mem |-> m]

\* enumerator_base(Parameters &&...parameters): m_iterable{forward(parameters)...}
enumerator_base_variadic(T, a, m) ==
    [m_iterable |-> [stored |-> "value", store |-> "owned"],
     mem |-> [m EXCEPT !["owned"] = [live |-> TRUE, data |-> ListInit(T, a)]]]

\* ---------------------------------------------------------------- actions

\* auto &&__range = xtr::enumerate<...>(...): the static_asserts on
\* index_type, the constructor, and the end of the full-expression, where a
\* temporary argument is destroyed
Enumerate ==
    /\ pc = "call"
    /\ LET I == IndexArgument(Iterable, explicitIndex)
           R == iterable_type(category)
           made == IF category = "variadic"
                   THEN enumerator_base_variadic(Iterable, args, mem)
                   ELSE enumerator_base(R, IF category = "lvalue" THEN "caller" ELSE "temp", mem)
       IN  IF is_reference(I) \/ (category = "variadic" /\ get_stored_t(R) # "value")
           THEN /\ pc' = "rejected"
                /\ UNCHANGED <<mem, m_iterable, index_type>>
           ELSE /\ pc' = "ready"
                /\ index_type' = I
                /\ m_iterable' = made.m_iterable
                /\ mem' = [made.mem EXCEPT !["temp"] = Dead]
    /\ UNCHANGED <<types, it, endIt, yielded, derefs, steps, pass, writes, broke>>

\* auto __begin = begin(__range), __end = end(__range); nothing in the
\* enumerator records that it was traversed, so a finished or abandoned
\* traversal can be followed by another
Begin ==
    /\ pc \in {"ready", "done"}
    /\ pass < MaxPasses
    /\ LET n == Len(Data(m_iterable.store))
       IN  /\ it' = detail_begin(m_iterable, n)
           /\ endIt' = detail_end(m_iterable, n)
    /\ yielded' = NoPair
    /\ derefs' = 0
    /\ steps' = 0
    /\ pass' = pass + 1
    /\ broke' = FALSE
    /\ pc' = "test"
    /\ UNCHANGED <<types, mem, m_iterable, index_type, writes>>

\* __begin != __end
Test ==
    /\ pc = "test"
    /\ pc' = IF op_ne(it, endIt) THEN "body" ELSE "done"
    /\ UNCHANGED <<types, mem, m_iterable, index_type, it, endIt, yielded, derefs,
                   steps, pass, writes, broke>>

\* auto [i, x] = *__begin
Deref ==
    /\ pc = "body"
    /\ derefs < MaxDerefs
    /\ LET r == op_deref(it)
       IN  /\ it' = r.self
           /\ yielded' = r.ret
    /\ derefs' = derefs + 1
    /\ UNCHANGED <<types, mem, m_iterable, index_type, endIt, steps, pass, writes,
                   broke, pc>>

\* the loop body assigns to the element it was handed: x = v
Write ==
    /\ pc = "body"
    /\ yielded # NoPair
    /\ writes < MaxWrites
    /\ mem[yielded.ref.store].live
    /\ yielded.ref.pos < Len(Data(yielded.ref.store))
    /\ \E v \in Elems \ {At(yielded.ref)} :
          mem' = [mem EXCEPT ![yielded.ref.store].data[yielded.ref.pos + 1] = v]
    /\ writes' = writes + 1
    /\ UNCHANGED <<types, m_iterable, index_type, it, endIt, yielded, derefs, steps,
                   pass, broke, pc>>

\* ++__begin
Increment ==
    /\ pc = "body"
    /\ derefs > 0
    /\ steps < MaxSteps
    /\ it' = op_inc(it, Iterable, Len(Data(m_iterable.store)), index_type)
    /\ steps' = steps + 1
    /\ yielded' = NoPair
    /\ derefs' = 0
    /\ pc' = "test"
    /\ UNCHANGED <<types, mem, m_iterable, index_type, endIt, pass, writes, broke>>

\* break
Break ==
    /\ pc = "body"
    /\ derefs > 0
    /\ broke' = TRUE
    /\ pc' = "done"
    /\ UNCHANGED <<types, mem, m_iterable, index_type, it, endIt, yielded, derefs,
                   steps, pass, writes>>

\* the enumerator goes out of scope: a sequence it stores by value dies with it
Destroy ==
    /\ pc \in {"ready", "done"}
    /\ mem' = IF m_iterable.stored = "value" THEN [mem EXCEPT !["owned"] = Dead] ELSE mem
    /\ pc' = "destroyed"
    /\ UNCHANGED <<types, m_iterable, index_type, it, endIt, yielded, derefs, steps,
                   pass, writes, broke>>

Next ==
    \/ Enumerate
    \/ Begin
    \/ Test
    \/ Deref
    \/ Write
    \/ Increment
    \/ Break
    \/ Destroy

Spec == Init /\ [][Next]_vars

\* ----------------------------------------------------------------- claims

Alive == pc \in {"ready", "test", "body", "done"}

Traversing == pc \in {"test", "body"}

Wrapped == m_iterable.store

\* n counted in the unsigned index type I (2^64 is beyond every count here)
Counted(n, I) ==
    CASE I = "uint8_t" -> n % 256
      [] I = "uint16_t" -> n % 65536
      [] OTHER -> n

\* element k (from 0) of the sequence s of type T
ElementAt(T, s, k) == IF endless(T) THEN s[(k % Len(s)) + 1] ELSE s[k + 1]

C2_CounterEqualsSteps == Traversing => it.m_index = steps

\* C2, amended: during a traversal the index counter equals the number of
\* operator++ calls since begin() reduced modulo 2^w, w the width of the
\* index type, and the underlying position is the one that many advancements
\* after the underlying begin: the two move in the same step.
C2_CounterEqualsStepsModulo ==
    Traversing =>
        /\ it.m_index = Counted(steps, index_type)
        /\ it.m_iterator.store = Wrapped
        /\ it.m_iterator.pos =
              IF endless(Iterable) THEN steps % Len(Data(Wrapped)) ELSE steps

C2_Witness ==
    /\ pc = "body"
    /\ index_type = "uint8_t"
    /\ steps = 257
    /\ it.m_index = 1

\* C3: the loop is left (other than by break) exactly when the underlying
\* position equals the underlying end sentinel, whatever the counter holds,
\* and never over a sequence whose end is never reached.
C3_EndsAtSentinel ==
    /\ pc = "body" => it.m_iterator # endIt
    /\ (pc = "done" /\ ~broke) => it.m_iterator = endIt
    /\ (pc = "done" /\ endless(Iterable)) => broke
    /\ (pc = "done" /\ ~broke) => steps = Len(Data(Wrapped))

C3_Witness ==
    /\ pc = "done"
    /\ ~broke
    /\ it.m_iterator = endIt
    /\ category = "rvalue"
    /\ steps = 2

\* C4 as stated: for every index type and length the counter is incremented
\* by exactly one on every advancement and never decreases in a traversal.
C4_NeverDecreases ==
    [][(pc = "body" /\ pc' = "test") => it'.m_index = it.m_index + 1]_vars

\* C4, amended: for an unsigned index type of width w the counter is zero
\* after begin(), every advancement sets it to (counter + 1) mod 2^w (one
\* more, except that the largest value is followed by zero), and no other
\* operation changes it.
C4_IncrementsModulo ==
    [][/\ (pc \in {"ready", "done"} /\ pc' = "test") => it'.m_index = 0
       /\ (pc = "body" /\ pc' = "test") =>
             it'.m_index =
                IF \/ (index_type = "uint8_t" /\ it.m_index = 255)
                   \/ (index_type = "uint16_t" /\ it.m_index = 65535)
                THEN 0 ELSE it.m_index + 1
       /\ (pc' # "test") => it'.m_index = it.m_index]_vars

C4_Witness ==
    /\ pc = "test"
    /\ index_type = "uint8_t"
    /\ steps = 256
    /\ it.m_index = 0

\* how the sequence is stored, in every state: by value for a temporary (or
\* for constructor arguments), alive exactly while the adapter is; by
\* reference for a named sequence, which is never copied
C5_StoredState ==
    /\ (Alive /\ category = "rvalue") =>
          /\ m_iterable = [stored |-> "value", store |-> "owned"]
          /\ ~mem["temp"].live
    /\ (category # "lvalue") => (mem["owned"].live <=> Alive)
    /\ (pc = "body") => mem[it.m_iterator.store].live
    /\ (pc = "body" /\ yielded # NoPair) => mem[yielded.ref.store].live
    /\ (category = "lvalue" /\ pc # "rejected") =>
          /\ mem["caller"].live
          /\ ~mem["owned"].live
          /\ Alive => m_iterable = [stored |-> "lvalue_ref", store |-> "caller"]
          /\ (pc = "body" /\ yielded # NoPair) => yielded.ref.store = "caller"

\* C5: a sequence handed over as a temporary is moved into the adapter and
\* lives exactly as long as the adapter, so every access of the traversal is
\* to a live object; a named sequence is stored by reference, never copied,
\* and the elements yielded are the caller's own (a write through one
\* changes the caller's sequence).
C5_Lifetime ==
    /\ []C5_StoredState
    /\ [][(category = "lvalue" /\ writes' = writes + 1) =>
             /\ Len(mem'["caller"].data) = Len(mem["caller"].data)
             /\ yielded.ref.store = "caller"
             /\ mem'["caller"].data[yielded.ref.pos + 1]
                   # mem["caller"].data[yielded.ref.pos + 1]]_vars

C5_Witness ==
    /\ category = "rvalue"
    /\ pc = "body"
    /\ yielded # NoPair
    /\ steps = 2
    /\ Iterable = "vector"

\* C6: begin, !=, ++ and * change neither the wrapped sequence nor how the
\* adapter stores it, and the element half of a yielded pair is what the
\* underlying position itself refers to.
C6_SequenceUnchanged ==
    /\ [](pc = "body" /\ yielded # NoPair => yielded.ref = it.m_iterator)
    /\ [][(pc = "test" \/ pc' = "test" \/ derefs' = derefs + 1) =>
             /\ mem' = mem
             /\ m_iterable' = m_iterable
             /\ index_type' = index_type]_vars

C6_Witness ==
    /\ pc = "done"
    /\ ~broke
    /\ category = "lvalue"
    /\ steps = MaxLen
    /\ pass = 1

\* C7 as stated: an adapter that has been traversed cannot be traversed
\* again: no pair is produced by a traversal after the first.
C7_SinglePass == pass >= 2 => yielded = NoPair

\* C7, amended: the adapter keeps no record of a traversal; every call of
\* begin(), the first or a later one, returns an iterator at the underlying
\* begin with counter zero, and a later traversal of a (multi-pass) sequence
\* yields (k, element k) again up to the end.
C7_Restartable ==
    /\ (pc = "test" /\ steps = 0) =>
          it = [m_iterator |-> [store |-> Wrapped, pos |-> 0], m_index |-> 0]
    /\ (pass >= 2 /\ pc = "body" /\ yielded # NoPair) =>
          /\ yielded.index = Counted(steps, index_type)
          /\ At(yielded.ref) = ElementAt(Iterable, Data(Wrapped), steps)
    /\ (pass >= 2 /\ pc = "done" /\ ~broke) => steps = Len(Data(Wrapped))

C7_Witness ==
    /\ pass = 2
    /\ pc = "done"
    /\ ~broke
    /\ steps = MaxLen

\* C8: the index type is the one supplied; when omitted, the size_type the
\* sequence type declares, and size_t when it declares none; a reference
\* type as index type is rejected.
C8_IndexType ==
    /\ (pc \notin {"call", "rejected"}) =>
          index_type =
             CASE explicitIndex # "omitted" -> explicitIndex
               [] Iterable = "small_vector" -> "uint8_t"
               [] OTHER -> "size_t"
    /\ (explicitIndex = "size_t&") => pc \in {"call", "rejected"}
    /\ (pc = "rejected") => explicitIndex = "size_t&"

C8_Witness ==
    /\ pc = "body"
    /\ explicitIndex = "omitted"
    /\ Iterable = "small_vector"
    /\ index_type = "uint8_t"

\* C9: traversing enumerate<Iterable>(args...) yields the pairs that
\* traversing enumerate(Iterable(args...)) yields.
C9_VariadicSameAsTemporary ==
    (category = "variadic" /\ writes = 0) =>
        /\ (pc = "body" /\ yielded # NoPair) =>
              /\ endless(Iterable) \/ steps < Len(Construct(Iterable, args))
              /\ At(yielded.ref) = ElementAt(Iterable, Construct(Iterable, args), steps)
        /\ (pc = "done" /\ ~broke) => steps = Len(Construct(Iterable, args))

\* C10: operator* changes neither the position nor the counter, a second
\* operator* before the next advancement returns the same pair, and a write
\* of the caller through the pair changes neither.
C10_DerefReadOnly ==
    [][/\ (derefs' = derefs + 1) =>
             /\ it' = it
             /\ yielded'.index = it.m_index
             /\ (derefs > 0 => yielded' = yielded)
       /\ (writes' = writes + 1) => (it' = it /\ yielded' = yielded)]_vars

C10_Witness ==
    /\ pc = "body"
    /\ derefs = 2
    /\ writes = 1
    /\ steps = 1

====
